---- MODULE Spec2Model ----
(***************************************************************************)
(* gpui-lucide: the build script that generates the IconName catalog from  *)
(* the icons directory (crates/gpui-lucide/build.rs), the generated        *)
(* accessors, and the playground's browser state, search filter and        *)
(* virtualised icon grid (crates/playground/src/main.rs).                  *)
(*                                                                         *)
(* Strings are sequences of characters; a character is a one-token string. *)
(* "di" stands for U+0131 (LATIN SMALL LETTER DOTLESS I), whose uppercase  *)
(* is "I" while the lowercase of "I" is "i".                               *)
(***************************************************************************)
EXTENDS Integers, Sequences, FiniteSets

VARIABLES
    fs_dir,            \* the icons directory as the build script finds it
    build_pc,          \* position of the build: start, done, panicked, compiled, rejected
    generated,         \* icons_generated.rs: the enum, path(), name(), all(), count()
    query,             \* text of the search input
    filtered_icons,    \* Playground.filtered_icons
    hovered_icon,      \* Playground.hovered_icon
    selected_color,    \* Playground.selected_color
    selected_size,     \* Playground.selected_size
    rotation_degrees,  \* Playground.rotation_degrees
    is_dark,           \* Playground.is_dark
    frame,             \* what the last render pass produced (layout, rows, hover listeners)
    last_op,           \* the kind of handler that ran last: none, filter, search (with the
                       \* hover it found), hover, style or render, and what it did in
                       \* order: field writes and notifications
    icon_self,         \* an Icon under construction: color, size, custom_style
    element            \* what Icon::render made of it, once rendered

vars == <<fs_dir, build_pc, generated, query, filtered_icons, hovered_icon,
          selected_color, selected_size, rotation_degrees, is_dark, frame, last_op,
          icon_self, element>>

buildVars == <<fs_dir, build_pc, generated>>
styleVars == <<selected_color, selected_size, rotation_degrees, is_dark>>
iconVars == <<icon_self, element>>

(***************************************************************************)
(* Bounds of the model.                                                    *)
(***************************************************************************)
MaxFiles == 3
MaxQueryLen == 2
MaxSessionQueryLen == 1
MaxItems == 10
MaxGridHundreds == 4
MaxViewportHundreds == 6
MaxVisibleRow == 2

(***************************************************************************)
(* Characters and the std string operations the code uses.                 *)
(***************************************************************************)
UpperMap == [a |-> "A", c |-> "C", g |-> "G", i |-> "I", n |-> "N", o |-> "O",
             p |-> "P", s |-> "S", v |-> "V", di |-> "I"]

LowerMap == [A |-> "a", C |-> "c", G |-> "g", I |-> "i", N |-> "n", O |-> "o",
             P |-> "p", S |-> "s", V |-> "v"]

Digits == {"1"}

is_lowercase(c) == c \in DOMAIN UpperMap
is_uppercase(c) == c \in DOMAIN LowerMap
is_numeric(c) == c \in Digits
is_alphanumeric(c) == is_lowercase(c) \/ is_uppercase(c) \/ is_numeric(c)

char_to_lowercase(c) == IF c \in DOMAIN LowerMap THEN LowerMap[c] ELSE c
char_to_uppercase(c) == IF c \in DOMAIN UpperMap THEN UpperMap[c] ELSE c

to_lowercase(s) == [k \in 1..Len(s) |-> char_to_lowercase(s[k])]
to_uppercase(s) == [k \in 1..Len(s) |-> char_to_uppercase(s[k])]

\* str::contains: needle occurs in hay as a contiguous substring.
contains(hay, needle) ==
    \E off \in 0..(Len(hay) - Len(needle)) :
        SubSeq(hay, off + 1, off + Len(needle)) = needle

\* Byte value of a character, for the byte-wise ordering of paths.
CharCode == [x \in {"-", ".", "/", "1", "A", "I", "a", "c", "g", "i", "n", "o", "p", "s", "v"} |->
    CASE x = "-" -> 45 [] x = "." -> 46 [] x = "/" -> 47 [] x = "1" -> 49
      [] x = "A" -> 65 [] x = "I" -> 73 [] x = "a" -> 97 [] x = "c" -> 99
      [] x = "g" -> 103 [] x = "i" -> 105 [] x = "n" -> 110 [] x = "o" -> 111
      [] x = "p" -> 112 [] x = "s" -> 115 [] x = "v" -> 118]

RECURSIVE StrLess(_, _)
StrLess(s, t) ==
    IF t = <<>> THEN FALSE
    ELSE IF s = <<>> THEN TRUE
    ELSE IF CharCode[Head(s)] # CharCode[Head(t)] THEN CharCode[Head(s)] < CharCode[Head(t)]
    ELSE StrLess(Tail(s), Tail(t))

(***************************************************************************)
(* Path::extension and Path::file_stem on a file name.                     *)
(***************************************************************************)
DotPositions(f) == {k \in 1..Len(f) : f[k] = "."}
LastDot(f) == CHOOSE k \in DotPositions(f) : \A j \in DotPositions(f) : j <= k

\* None for a name with no dot, or whose only dot is the first character.
HasExtension(f) == DotPositions(f) # {} /\ LastDot(f) > 1
extension(f) == SubSeq(f, LastDot(f) + 1, Len(f))
file_stem(f) == IF HasExtension(f) THEN SubSeq(f, 1, LastDot(f) - 1) ELSE f

SvgExt == <<"s", "v", "g">>
IsSvg(f) == HasExtension(f) /\ extension(f) = SvgExt

(***************************************************************************)
(* heck::ToUpperCamelCase, as build.rs calls it on the file stem.          *)
(***************************************************************************)
RECURSIVE SplitWords(_, _, _)
\* s.split(|c| !c.is_alphanumeric()): acc holds the finished words, cur the open one.
SplitWords(s, cur, acc) ==
    IF s = <<>> THEN Append(acc, cur)
    ELSE IF is_alphanumeric(Head(s)) THEN SplitWords(Tail(s), Append(cur, Head(s)), acc)
    ELSE SplitWords(Tail(s), <<>>, Append(acc, cur))

capitalize(w) ==
    IF w = <<>> THEN <<>>
    ELSE <<char_to_uppercase(w[1])>> \o to_lowercase(Tail(w))

RECURSIVE CamelWord(_, _, _, _)
\* One split word scanned for case boundaries; mode is B(oundary), L(owercase) or U(ppercase).
CamelWord(word, k, init, mode) ==
    IF k > Len(word) THEN <<>>
    ELSE IF k = Len(word) THEN capitalize(SubSeq(word, init, Len(word)))
    ELSE LET c == word[k]
             next == word[k + 1]
             next_mode == IF is_lowercase(c) THEN "L"
                          ELSE IF is_uppercase(c) THEN "U" ELSE mode
         IN IF next_mode = "L" /\ is_uppercase(next)
            THEN capitalize(SubSeq(word, init, k)) \o CamelWord(word, k + 1, k + 1, "B")
            ELSE IF mode = "U" /\ is_uppercase(c) /\ is_lowercase(next)
            THEN capitalize(SubSeq(word, init, k - 1)) \o CamelWord(word, k + 1, k, "B")
            ELSE CamelWord(word, k + 1, init, next_mode)

RECURSIVE CamelWords(_)
CamelWords(words) ==
    IF words = <<>> THEN <<>>
    ELSE CamelWord(Head(words), 1, 1, "B") \o CamelWords(Tail(words))

to_upper_camel_case(s) == CamelWords(SplitWords(s, <<>>, <<>>))

(***************************************************************************)
(* build.rs: main.                                                         *)
(***************************************************************************)
Svg(stem) == stem \o <<".">> \o SvgExt

\* File names the icons directory may hold.
FileNames ==
    { Svg(<<"i">>), Svg(<<"I">>), Svg(<<"a", "i">>), Svg(<<"a", "I">>),
      Svg(<<"a", "-", "i">>), Svg(<<"i", "a">>), Svg(<<"1", "a">>), Svg(<<"-">>),
      <<"a", ".", "p", "n", "g">>, <<".", "s", "v", "g">> }

Dirs == {d \in SUBSET FileNames : Cardinality(d) <= MaxFiles}

\* The closure of the entries filter: e.path().extension() == "svg".
BuildAcceptsEntry(f) == IsSvg(f)

RECURSIVE SortByPath(_)
\* entries.sort_by_key(|e| e.path()): ascending, byte-wise; all entries share the directory.
SortByPath(S) ==
    IF S = {} THEN <<>>
    ELSE LET m == CHOOSE x \in S : \A y \in S \ {x} : StrLess(x, y)
         IN <<m>> \o SortByPath(S \ {m})

\* Names starting with a number get the prefix N.
VariantName(stem) ==
    LET variant_name == to_upper_camel_case(stem)
    IN IF variant_name # <<>> /\ is_numeric(variant_name[1])
       THEN <<"N">> \o variant_name
       ELSE variant_name

\* The mutant: the stem is case-folded before it is recorded.
IconEntryCaseFolded(f) ==
    LET stem == to_lowercase(file_stem(f))
    IN [variant_name |-> VariantName(file_stem(f)),
        file_stem |-> stem,
        file_name |-> stem \o <<".">> \o SvgExt]

\* One element of icon_entries: (variant_name, file_stem, file_name).
IconEntry(f) ==
    LET stem == file_stem(f)
    IN [variant_name |-> VariantName(stem),
        file_stem |-> stem,
        file_name |-> stem \o <<".">> \o SvgExt]

\* icon_entries for a readable directory: failed entries are dropped by filter_map(|e| e.ok()).
IconEntries(dir) ==
    LET entries == SortByPath({f \in dir.files \ dir.bad : BuildAcceptsEntry(f)})
    IN [k \in 1..Len(entries) |-> IconEntry(entries[k])]

IconsPrefix == <<"i", "c", "o", "n", "s", "/">>

\* The mutant: the path arms are written from the variant name.
GeneratedCodePathFromVariant(icon_entries) ==
    [variants |-> [k \in 1..Len(icon_entries) |-> icon_entries[k].variant_name],
     path_arms |-> [k \in 1..Len(icon_entries) |->
                      [variant |-> icon_entries[k].variant_name,
                       value |-> IconsPrefix \o icon_entries[k].variant_name
                                    \o <<".">> \o SvgExt]],
     name_arms |-> [k \in 1..Len(icon_entries) |->
                      [variant |-> icon_entries[k].variant_name,
                       value |-> icon_entries[k].file_stem]],
     all |-> [k \in 1..Len(icon_entries) |-> icon_entries[k].variant_name],
     count |-> Len(icon_entries)]

\* The text of icons_generated.rs, section by section.
GeneratedCode(icon_entries) ==
    [variants |-> [k \in 1..Len(icon_entries) |-> icon_entries[k].variant_name],
     path_arms |-> [k \in 1..Len(icon_entries) |->
                      [variant |-> icon_entries[k].variant_name,
                       value |-> IconsPrefix \o icon_entries[k].file_name]],
     name_arms |-> [k \in 1..Len(icon_entries) |->
                      [variant |-> icon_entries[k].variant_name,
                       value |-> icon_entries[k].file_stem]],
     all |-> [k \in 1..Len(icon_entries) |-> icon_entries[k].variant_name],
     count |-> Len(icon_entries)]

NoCode == GeneratedCode(<<>>)

\* fn main() of build.rs.
Build ==
    /\ build_pc = "start"
    /\ IF ~fs_dir.exists
       THEN /\ generated' = GeneratedCode(<<>>)
            /\ build_pc' = "done"
       ELSE IF ~fs_dir.readable
       THEN /\ generated' = NoCode
            /\ build_pc' = "panicked"
       ELSE /\ generated' = GeneratedCode(IconEntries(fs_dir))
            /\ build_pc' = "done"
    /\ UNCHANGED <<fs_dir, query, filtered_icons, hovered_icon, styleVars, frame, last_op,
                   iconVars>>

\* rustc on the generated enum: duplicate or empty variant identifiers are rejected,
\* and so is `match self {}` on a reference to an enum without variants.
CodeCompiles(code) ==
    /\ code.count > 0
    /\ \A k \in 1..Len(code.variants) : code.variants[k] # <<>>
    /\ \A j, k \in 1..Len(code.variants) : j # k => code.variants[j] # code.variants[k]

\* include!(concat!(env!("OUT_DIR"), "/icons_generated.rs")) in lib.rs.
Compile ==
    /\ build_pc = "done"
    /\ build_pc' = IF CodeCompiles(generated) THEN "compiled" ELSE "rejected"
    /\ UNCHANGED <<fs_dir, generated, query, filtered_icons, hovered_icon, styleVars,
                   frame, last_op, iconVars>>

(***************************************************************************)
(* The generated accessors of IconName; an IconName is its variant.        *)
(***************************************************************************)
MatchArm(arms, icon) ==
    arms[CHOOSE k \in 1..Len(arms) : arms[k].variant = icon].value

path(icon) == MatchArm(generated.path_arms, icon)
name(icon) == MatchArm(generated.name_arms, icon)
all == generated.all
count == generated.count

(***************************************************************************)
(* Option<T>: None, or Some(x).                                            *)
(***************************************************************************)
None == <<>>
Some(x) == <<x>>

(***************************************************************************)
(* icon.rs: IconSize, Icon and Icon::render.  A length is a number of      *)
(* pixels or of thousandths of a rem.                                      *)
(***************************************************************************)
IconSizes == {"XSmall", "Small", "Medium", "Large", "XLarge"}

Px(n) == [unit |-> "px", value |-> n]
Rems(thousandths) == [unit |-> "rems", value |-> thousandths]

\* IconSize::to_rems, in thousandths of a rem.
to_rems(size) ==
    CASE size = "XSmall" -> 750
      [] size = "Small" -> 875
      [] size = "Medium" -> 1000
      [] size = "Large" -> 1500
      [] size = "XLarge" -> 2000

\* Icon::default(): no color, no size preset, an empty custom_style.
DefaultIcon ==
    [color |-> None, size |-> None, custom_style |-> [width |-> None, height |-> None]]

IconColors == {16766720}
OverridePixels == {24, 40}
\* The host's text style: font size in pixels, and color.
Windows == {[font_size |-> fs, color |-> 0] : fs \in {14, 16}}

\* Icon::color.
icon_color(c) ==
    /\ element = None
    /\ icon_self' = [icon_self EXCEPT !.color = Some(c)]
    /\ UNCHANGED <<buildVars, query, filtered_icons, hovered_icon, styleVars, frame,
                   last_op, element>>

\* Icon::with_size.
with_size(preset) ==
    /\ element = None
    /\ icon_self' = [icon_self EXCEPT !.size = Some(preset)]
    /\ UNCHANGED <<buildVars, query, filtered_icons, hovered_icon, styleVars, frame,
                   last_op, element>>

\* Styled::size, Styled::w and Styled::h on the Icon: they write custom_style.
styled_size(length) ==
    /\ element = None
    /\ icon_self' = [icon_self EXCEPT !.custom_style = [width |-> Some(length), height |-> Some(length)]]
    /\ UNCHANGED <<buildVars, query, filtered_icons, hovered_icon, styleVars, frame,
                   last_op, element>>

styled_w(length) ==
    /\ element = None
    /\ icon_self' = [icon_self EXCEPT !.custom_style.width = Some(length)]
    /\ UNCHANGED <<buildVars, query, filtered_icons, hovered_icon, styleVars, frame,
                   last_op, element>>

styled_h(length) ==
    /\ element = None
    /\ icon_self' = [icon_self EXCEPT !.custom_style.height = Some(length)]
    /\ UNCHANGED <<buildVars, query, filtered_icons, hovered_icon, styleVars, frame,
                   last_op, element>>

\* The style Icon::render leaves on the svg: custom_style replaces the base style, the
\* text size is applied when there is neither a custom size nor a preset, and the preset,
\* when there is one, is applied last.
RenderedStyle(ic, window) ==
    LET text_color == IF ic.color # None THEN ic.color[1] ELSE window.color
        text_size == window.font_size
        has_custom_size == ic.custom_style.width # None \/ ic.custom_style.height # None
        base == ic.custom_style
        with_text_size ==
            IF ~has_custom_size /\ ic.size = None
            THEN [width |-> Some(Px(text_size)), height |-> Some(Px(text_size))]
            ELSE base
        with_preset ==
            IF ic.size # None
            THEN [width |-> Some(Rems(to_rems(ic.size[1]))),
                  height |-> Some(Rems(to_rems(ic.size[1])))]
            ELSE with_text_size
    IN [width |-> with_preset.width, height |-> with_preset.height,
        text_color |-> text_color, window |-> window]

\* <Icon as RenderOnce>::render; it consumes the icon.
icon_render(window) ==
    /\ element = None
    /\ element' = Some(RenderedStyle(icon_self, window))
    /\ UNCHANGED <<buildVars, query, filtered_icons, hovered_icon, styleVars, frame,
                   last_op, icon_self>>

(***************************************************************************)
(* playground: filter_icons.                                               *)
(***************************************************************************)
\* The mutant: the query is compared as typed.
filter_icons_as_typed(q) ==
    IF q = <<>> THEN all
    ELSE SelectSeq(all, LAMBDA icon : contains(name(icon), q))

filter_icons(q) ==
    LET lowered == to_lowercase(q)
    IN IF lowered = <<>> THEN all
       ELSE SelectSeq(all, LAMBDA icon : contains(name(icon), lowered))

QueryChars == {"a", "I", "di"}

RECURSIVE StringsUpTo(_, _)
StringsUpTo(chars, n) ==
    IF n = 0 THEN {<<>>}
    ELSE LET shorter == StringsUpTo(chars, n - 1)
         IN shorter \cup {Append(s, c) : s \in shorter, c \in chars}

Queries == StringsUpTo(QueryChars, MaxQueryLen)

NoFrame ==
    [rendered |-> FALSE, grid_width |-> 0, items_per_row |-> 0, num_rows |-> 0,
     panicked |-> FALSE, processed |-> FALSE, range |-> <<0, 0>>, rows |-> <<>>]

NoOp == [name |-> "none", hovered_before |-> None, effects |-> <<>>]

\* The playground's tests call filter_icons on the compiled catalog; a behaviour
\* applies it to one query.
TestFilterIcons(q) ==
    /\ build_pc = "compiled"
    /\ last_op = NoOp
    /\ query' = q
    /\ filtered_icons' = filter_icons(q)
    /\ last_op' = [name |-> "filter", hovered_before |-> None, effects |-> <<>>]
    /\ UNCHANGED <<buildVars, iconVars, hovered_icon, styleVars, frame>>

(***************************************************************************)
(* The catalog pipeline: a directory, the build, the compiler, the filter. *)
(***************************************************************************)
InitDirs ==
    {[exists |-> FALSE, readable |-> FALSE, files |-> {}, bad |-> {}]}
    \cup {[exists |-> TRUE, readable |-> FALSE, files |-> d, bad |-> {}] : d \in Dirs}
    \cup UNION {{[exists |-> TRUE, readable |-> TRUE, files |-> d, bad |-> b] :
                    b \in {x \in SUBSET d : Cardinality(x) <= 1}} : d \in Dirs}

InitCatalog ==
    /\ fs_dir \in InitDirs
    /\ build_pc = "start"
    /\ generated = NoCode
    /\ query = <<>>
    /\ filtered_icons = <<>>
    /\ hovered_icon = None
    /\ selected_color = 16777215
    /\ selected_size = "Large"
    /\ rotation_degrees = 0
    /\ is_dark = TRUE
    /\ frame = NoFrame
    /\ last_op = NoOp
    /\ icon_self = DefaultIcon
    /\ element = None

NextCatalog ==
    \/ Build
    \/ Compile
    \/ \E q \in Queries : TestFilterIcons(q)

SpecCatalog == InitCatalog /\ [][NextCatalog]_vars

(***************************************************************************)
(* playground: Playground::render and render_icon_grid.                    *)
(***************************************************************************)
CARD_SIZE == 72
GAP == 8
PADDING == 16
SidebarWidth == 300
MinGridWidth == 200

Max(a, b) == IF a >= b THEN a ELSE b
Min(a, b) == IF a <= b THEN a ELSE b

\* `as usize` on a floored f32: a negative value saturates to 0.
AsUsize(x) == IF x < 0 THEN 0 ELSE x

\* Playground::render: the width left of the sidebar, at least 200.
GridWidth(viewport_width) == Max(viewport_width - SidebarWidth, MinGridWidth)

\* The mutant: the floor is taken as it comes, without the clamp to 1.
ItemsPerRowUnclamped(grid_width) ==
    LET available_width == grid_width - (PADDING * 2)
    IN AsUsize((available_width + GAP) \div (CARD_SIZE + GAP))

\* The mutant: the gap that the last card of a row does not need is not given back.
ItemsPerRowWithoutGap(grid_width) ==
    LET available_width == grid_width - (PADDING * 2)
        items_per_row == AsUsize(available_width \div (CARD_SIZE + GAP))
    IN Max(items_per_row, 1)

ItemsPerRow(grid_width) ==
    LET available_width == grid_width - (PADDING * 2)
        items_per_row == AsUsize((available_width + GAP) \div (CARD_SIZE + GAP))
    IN Max(items_per_row, 1)

\* The mutant: the division truncates.
DivTruncated(n, d) == n \div d

\* usize::div_ceil; the caller handles the panic on a zero divisor.
DivCeil(n, d) == (n + d - 1) \div d

\* The layout part of render_icon_grid; the division panics when items_per_row is 0.
RenderIconGrid(grid_width) ==
    LET items_per_row == ItemsPerRow(grid_width)
        icon_count == Len(filtered_icons)
    IN /\ build_pc = "compiled"
       /\ ~frame.panicked
       /\ frame' = [rendered |-> TRUE,
                    grid_width |-> grid_width,
                    items_per_row |-> items_per_row,
                    num_rows |-> IF items_per_row = 0 THEN 0 ELSE DivCeil(icon_count, items_per_row),
                    panicked |-> (items_per_row = 0),
                    processed |-> FALSE,
                    range |-> <<0, 0>>,
                    rows |-> <<>>]
       /\ last_op' = [name |-> "render", hovered_before |-> None, effects |-> <<>>]
       /\ UNCHANGED <<buildVars, iconVars, query, filtered_icons, hovered_icon, styleVars>>

\* The mutant: the end of a row is not clipped to the length of the list.
RowEndUnclipped(start_idx, items_per_row, len) == start_idx + items_per_row

\* end_idx of a row.
RowEnd(start_idx, items_per_row, len) == Min(start_idx + items_per_row, len)

\* The mutant: a row starts one item late.
RowStartOffByOne(row_idx, items_per_row) == row_idx * items_per_row + 1

\* start_idx of a row.
RowStart(row_idx, items_per_row) == row_idx * items_per_row

\* The indices (from 0) that row row_idx reads: start_idx..end_idx, empty when start >= end.
RowIndices(row_idx, items_per_row, len) ==
    LET start_idx == RowStart(row_idx, items_per_row)
        end_idx == RowEnd(start_idx, items_per_row, len)
    IN [j \in 1..(end_idx - start_idx) |-> start_idx + j - 1]

\* this.filtered_icons[idx] panics when idx is out of bounds.
RowPanics(indices, list) == \E j \in 1..Len(indices) : indices[j] >= Len(list)

\* The icons of one row, in order (read as far as the list reaches).
RowItems(indices, list) ==
    LET readable == SelectSeq(indices, LAMBDA idx : idx < Len(list))
    IN [j \in 1..Len(readable) |-> list[readable[j] + 1]]

\* The mutant: the rows pass drops the hover when it runs.
ProcessorDropsHover(lo, hi) ==
    LET ipr == frame.items_per_row
        len == Len(filtered_icons)
        indices == [k \in 1..(hi - lo) |-> RowIndices(lo + k - 1, ipr, len)]
    IN /\ frame.rendered
       /\ ~frame.panicked
       /\ frame' = [frame EXCEPT
                      !.processed = TRUE,
                      !.range = <<lo, hi>>,
                      !.rows = [k \in 1..(hi - lo) |-> RowItems(indices[k], filtered_icons)],
                      !.panicked = \E k \in 1..(hi - lo) : RowPanics(indices[k], filtered_icons)]
       /\ hovered_icon' = None
       /\ last_op' = [name |-> "render", hovered_before |-> None, effects |-> <<>>]
       /\ UNCHANGED <<buildVars, iconVars, query, filtered_icons, styleVars>>

\* The closure given to uniform_list: rows for visible_range = lo..hi, from the
\* items_per_row captured at render time and the list as it is now.
Processor(lo, hi) ==
    LET ipr == frame.items_per_row
        len == Len(filtered_icons)
        indices == [k \in 1..(hi - lo) |-> RowIndices(lo + k - 1, ipr, len)]
    IN /\ frame.rendered
       /\ ~frame.panicked
       /\ frame' = [frame EXCEPT
                      !.processed = TRUE,
                      !.range = <<lo, hi>>,
                      !.rows = [k \in 1..(hi - lo) |-> RowItems(indices[k], filtered_icons)],
                      !.panicked = \E k \in 1..(hi - lo) : RowPanics(indices[k], filtered_icons)]
       /\ last_op' = [name |-> "render", hovered_before |-> None, effects |-> <<>>]
       /\ UNCHANGED <<buildVars, iconVars, query, filtered_icons, hovered_icon, styleVars>>

Ranges(max) == {r \in (0..max) \X (0..max) : r[1] <= r[2]}

(***************************************************************************)
(* The grid alone: render_icon_grid and its rows on lists of every length  *)
(* and on every grid width, also those Playground::render never passes.    *)
(***************************************************************************)
RECURSIVE Repeat(_, _)
Repeat(c, n) == IF n = 0 THEN <<>> ELSE <<c>> \o Repeat(c, n - 1)

\* A directory of MaxItems icons named i, ii, iii, ...
GridDir ==
    [exists |-> TRUE, readable |-> TRUE,
     files |-> {Svg(Repeat("i", n)) : n \in 1..MaxItems}, bad |-> {}]

\* Every hundred up to the bound and, between them, the widths that n cards fit exactly.
GridWidths ==
    {100 * k : k \in 0..MaxGridHundreds}
    \cup {n * (CARD_SIZE + GAP) - GAP + 2 * PADDING : n \in 1..MaxGridHundreds}

InitGrid ==
    /\ fs_dir = GridDir
    /\ build_pc = "compiled"
    /\ generated = GeneratedCode(IconEntries(GridDir))
    /\ query \in {Repeat("i", n) : n \in 0..(MaxItems + 1)}
    /\ filtered_icons = filter_icons(query)
    /\ hovered_icon = None
    /\ selected_color = 16777215
    /\ selected_size = "Large"
    /\ rotation_degrees = 0
    /\ is_dark = TRUE
    /\ frame = NoFrame
    /\ last_op = NoOp
    /\ icon_self = DefaultIcon
    /\ element = None

NextGrid ==
    \/ \E w \in GridWidths : RenderIconGrid(w)
    \/ \E r \in Ranges(MaxItems + 1) : Processor(r[1], r[2])

SpecGrid == InitGrid /\ [][NextGrid]_vars

(***************************************************************************)
(* playground: the Playground entity and its handlers.                     *)
(***************************************************************************)
InList(list, x) == \E k \in 1..Len(list) : list[k] = x

\* The mutant: the hover is validated against the list as it was before the query changed.
HoverAfterSearchStale(hovered, old_filtered, new_filtered) ==
    IF hovered # None /\ ~InList(old_filtered, hovered[1]) THEN None ELSE hovered

\* The search observer's check of hovered_icon, made after filtered_icons is replaced.
HoverAfterSearch(hovered, old_filtered, new_filtered) ==
    IF hovered # None /\ ~InList(new_filtered, hovered[1]) THEN None ELSE hovered

\* What a setter of Playground does, in order: its field write, then cx.notify().
MutatorEffects == <<"write", "notify">>

\* The mutant: the observer notifies before it clears the hover.
SearchEffectsNotifyBeforeClear(hovered, new_filtered) ==
    <<"write">>
    \o <<"notify">>
    \o (IF hovered # None /\ ~InList(new_filtered, hovered[1]) THEN <<"write">> ELSE <<>>)

\* What the search observer does, in order: the write of filtered_icons, the write that
\* clears hovered_icon when the new list lacks it, then cx.notify().
SearchEffects(hovered, new_filtered) ==
    <<"write">>
    \o (IF hovered # None /\ ~InList(new_filtered, hovered[1]) THEN <<"write">> ELSE <<>>)
    \o <<"notify">>

\* The closure of cx.observe(&search_input, ..), run when the search input notifies;
\* q is the text the input holds then.
ObserveSearch(q) ==
    /\ build_pc = "compiled"
    /\ query' = q
    /\ filtered_icons' = filter_icons(q)
    /\ hovered_icon' = HoverAfterSearch(hovered_icon, filtered_icons, filtered_icons')
    /\ last_op' = [name |-> "search", hovered_before |-> hovered_icon,
                   effects |-> SearchEffects(hovered_icon, filtered_icons')]
    /\ UNCHANGED <<buildVars, iconVars, styleVars, frame>>

set_color(color) ==
    /\ selected_color' = color
    /\ last_op' = [name |-> "style", hovered_before |-> None, effects |-> MutatorEffects]
    /\ UNCHANGED <<buildVars, iconVars, query, filtered_icons, hovered_icon, selected_size,
                   rotation_degrees, is_dark, frame>>

set_size(size) ==
    /\ selected_size' = size
    /\ last_op' = [name |-> "style", hovered_before |-> None, effects |-> MutatorEffects]
    /\ UNCHANGED <<buildVars, iconVars, query, filtered_icons, hovered_icon, selected_color,
                   rotation_degrees, is_dark, frame>>

set_rotation(degrees) ==
    /\ rotation_degrees' = degrees
    /\ last_op' = [name |-> "style", hovered_before |-> None, effects |-> MutatorEffects]
    /\ UNCHANGED <<buildVars, iconVars, query, filtered_icons, hovered_icon, selected_color,
                   selected_size, is_dark, frame>>

set_hovered(icon) ==
    /\ hovered_icon' = icon
    /\ last_op' = [name |-> "hover", hovered_before |-> None, effects |-> MutatorEffects]
    /\ UNCHANGED <<buildVars, iconVars, query, filtered_icons, styleVars, frame>>

toggle_theme ==
    /\ is_dark' = ~is_dark
    /\ last_op' = [name |-> "style", hovered_before |-> None, effects |-> MutatorEffects]
    /\ UNCHANGED <<buildVars, iconVars, query, filtered_icons, hovered_icon, selected_color,
                   selected_size, rotation_degrees, frame>>

\* The icons whose cards the last frame painted: each card carries an on_hover
\* listener that captured its icon when the row was built.
FrameCards ==
    {icon \in {generated.all[k] : k \in 1..Len(generated.all)} :
        \E r \in 1..Len(frame.rows) : InList(frame.rows[r], icon)}

\* The on_hover listener of the card of `icon`.
on_hover(icon, is_hovered) ==
    /\ frame.processed
    /\ ~frame.panicked
    /\ icon \in FrameCards
    /\ IF is_hovered THEN set_hovered(Some(icon)) ELSE set_hovered(None)

\* Playground::render for a window of the given width.
Render(viewport_width) == RenderIconGrid(GridWidth(viewport_width))

(***************************************************************************)
(* The browser session.                                                    *)
(***************************************************************************)
SessionFiles ==
    { {Svg(<<"i">>), Svg(<<"a", "i">>), Svg(<<"i", "a">>), <<"a", ".", "p", "n", "g">>},
      {Svg(<<"a", "I">>), Svg(<<"1">>)} }

SessionQueryChars == {"a", "I"}
SessionQueries == StringsUpTo(SessionQueryChars, MaxSessionQueryLen)
ViewportWidths == {100 * k : k \in 0..MaxViewportHundreds}
Colors == {16777215, 15287648}
Sizes == {"Large", "Small"}
Rotations == {0, 90}

\* The state Playground::new leaves, on a catalog the build produced.
Init ==
    /\ fs_dir \in {[exists |-> TRUE, readable |-> TRUE, files |-> d, bad |-> {}] :
                      d \in SessionFiles}
    /\ build_pc = "compiled"
    /\ generated = GeneratedCode(IconEntries(fs_dir))
    /\ CodeCompiles(generated)
    /\ query = <<>>
    /\ filtered_icons = filter_icons(<<>>)
    /\ hovered_icon = None
    /\ selected_color = 16777215
    /\ selected_size = "Large"
    /\ rotation_degrees = 0
    /\ is_dark = TRUE
    /\ frame = NoFrame
    /\ last_op = NoOp
    /\ icon_self = DefaultIcon
    /\ element = None

Next ==
    \/ \E q \in SessionQueries : ObserveSearch(q)
    \/ \E icon \in FrameCards, is_hovered \in BOOLEAN : on_hover(icon, is_hovered)
    \/ \E color \in Colors : set_color(color)
    \/ \E size \in Sizes : set_size(size)
    \/ \E degrees \in Rotations : set_rotation(degrees)
    \/ toggle_theme
    \/ \E w \in ViewportWidths : Render(w)
    \/ \E r \in Ranges(MaxVisibleRow) : Processor(r[1], r[2])

Spec == Init /\ [][Next]_vars

(***************************************************************************)
(* Properties of the catalog pipeline.                                     *)
(***************************************************************************)
BuildCompleted == build_pc \in {"done", "compiled", "rejected"}

\* lib.rs, test_icon_count_matches_icons_directory: the filter on a listed entry.
TestCountsEntry(f) == HasExtension(f) /\ extension(f) = SvgExt

\* C3: filter(q) is exactly the identifiers whose canonical name contains q as a
\* case-insensitive substring, in catalog order; the empty query gives the whole catalog.
C3_FilterIsCaseInsensitiveMatch ==
    last_op.name = "filter" =>
        filtered_icons =
            SelectSeq(all, LAMBDA icon : contains(to_lowercase(name(icon)), to_lowercase(query)))

\* C4 as stated: filter(q) and filter(uppercase(q)) are identical, for any query q.
C4_UppercaseQuerySameResult ==
    last_op.name = "filter" => filtered_icons = filter_icons(to_uppercase(query))

CaseRoundTrips(q) == to_lowercase(to_uppercase(q)) = to_lowercase(q)

\* C4 amended: filter(q) and filter(uppercase(q)) are identical for every query q whose
\* uppercase form lowercases back to lowercase(q), as every ASCII query does.
C4_UppercaseQuerySameResultWhenCaseRoundTrips ==
    (last_op.name = "filter" /\ CaseRoundTrips(query)) =>
        filtered_icons = filter_icons(to_uppercase(query))

C4_Witness ==
    /\ last_op.name = "filter"
    /\ CaseRoundTrips(query)
    /\ to_uppercase(query) # query
    /\ filtered_icons # <<>>
    /\ filtered_icons # all

\* C8: count() equals the number of identifiers all() yields, and both equal
\* the number of .svg files present in the icons directory at build time.
C8_CountMatchesFilesPresent ==
    BuildCompleted =>
        /\ count = Len(all)
        /\ count = Cardinality({f \in fs_dir.files : TestCountsEntry(f)})

\* C9: canonical names are pairwise distinct and lookup paths are pairwise distinct
\* across the generated catalog, for any set of files the generator accepts.
C9_NamesAndPathsUnique ==
    BuildCompleted =>
        \A j, k \in 1..count :
            j # k => /\ generated.name_arms[j].value # generated.name_arms[k].value
                     /\ generated.path_arms[j].value # generated.path_arms[k].value

C9_Witness ==
    /\ build_pc = "compiled"
    /\ count = 3

\* C10: for every identifier of the catalog, path(id) = "icons/" + name(id) + ".svg".
C10_PathFromName ==
    build_pc = "compiled" =>
        \A k \in 1..Len(all) :
            path(all[k]) = IconsPrefix \o name(all[k]) \o <<".">> \o SvgExt

C10_Witness ==
    /\ build_pc = "compiled"
    /\ count >= 2
    /\ \E k \in 1..Len(all) : name(all[k]) # to_lowercase(all[k])

(***************************************************************************)
(* Properties of the grid.                                                 *)
(***************************************************************************)
\* ceil(n / d) for d >= 1: the least number of rows of d items that hold n items.
CeilOf(n, d) == CHOOSE r \in 0..n : r * d >= n /\ (r = 0 \/ (r - 1) * d < n)

RECURSIVE Concat(_)
Concat(rows) == IF rows = <<>> THEN <<>> ELSE Head(rows) \o Concat(Tail(rows))

\* C5: the layout never yields items_per_row < 1, for any grid width from 0 up, so the
\* division that counts the rows never divides by zero.
C5_ItemsPerRowAtLeastOne ==
    frame.rendered => (frame.items_per_row >= 1 /\ ~frame.panicked)

C5_Witness ==
    /\ frame.rendered
    /\ frame.grid_width = 0
    /\ frame.items_per_row = 1
    /\ Len(filtered_icons) > 1
    /\ frame.num_rows = Len(filtered_icons)

\* C6: the rows of the full range [0, ceil(len / items_per_row)), concatenated in row
\* order, are exactly the filtered list, and no row holds more than items_per_row items.
C6_FullRangeReconstructsList ==
    (/\ frame.processed
     /\ frame.items_per_row >= 1
     /\ frame.range = <<0, CeilOf(Len(filtered_icons), frame.items_per_row)>>)
    => /\ Concat(frame.rows) = filtered_icons
       /\ \A k \in 1..Len(frame.rows) : Len(frame.rows[k]) <= frame.items_per_row

\* 10 items at 3 per row: 4 rows of sizes 3, 3, 3, 1.
C6_Witness ==
    /\ frame.processed
    /\ Len(filtered_icons) = 10
    /\ frame.items_per_row = 3
    /\ frame.range = <<0, 4>>
    /\ [k \in 1..Len(frame.rows) |-> Len(frame.rows[k])] = <<3, 3, 3, 1>>

(***************************************************************************)
(* Properties of the browser session.                                      *)
(***************************************************************************)
\* C1: in every reachable state of the session the hovered identifier is absent or a
\* member of the current filtered list.
C1_HoveredIsAbsentOrFiltered ==
    hovered_icon = None \/ InList(filtered_icons, hovered_icon[1])

\* C2: when the query changes to q the filtered list becomes filter(q) and the hover is
\* then validated against that new list: cleared if it is not in it, kept otherwise.
C2_SearchFiltersThenValidatesHover ==
    last_op.name = "search" =>
        /\ filtered_icons = filter_icons(query)
        /\ hovered_icon =
              IF last_op.hovered_before # None
                 /\ ~InList(filtered_icons, last_op.hovered_before[1])
              THEN None
              ELSE last_op.hovered_before

C2_Witness ==
    /\ last_op.name = "search"
    /\ last_op.hovered_before # None
    /\ hovered_icon = None
    /\ filtered_icons # <<>>

\* C7: with a visible range that reaches past the valid rows (a range kept from before
\* the list shrank) producing rows never fails and never reads the list out of bounds:
\* each row is the clipped slice of the list, empty past its end.
C7_StaleRangeIsClipped ==
    /\ ~frame.panicked
    /\ (frame.processed /\ last_op.name = "render") =>
          \A k \in 1..Len(frame.rows) :
              LET row_idx == frame.range[1] + k - 1
              IN frame.rows[k] =
                    SubSeq(filtered_icons,
                           row_idx * frame.items_per_row + 1,
                           Min((row_idx + 1) * frame.items_per_row, Len(filtered_icons)))

C7_Witness ==
    /\ frame.processed
    /\ last_op.name = "render"
    /\ filtered_icons # <<>>
    /\ frame.num_rows > CeilOf(Len(filtered_icons), frame.items_per_row)
    /\ frame.range = <<0, frame.num_rows>>
    /\ frame.rows[Len(frame.rows)] = <<>>

(***************************************************************************)
(* Properties of the generator's error handling and naming.                *)
(***************************************************************************)
\* The files of the directory that reach the loop over entries.
AcceptedFiles == {f \in fs_dir.files \ fs_dir.bad : BuildAcceptsEntry(f)}

\* Two distinct accepted files whose base names case-fold to the same canonical name,
\* or whose identifier tokens are the same.
NamesCollide ==
    \E f, g \in AcceptedFiles :
        /\ f # g
        /\ \/ to_lowercase(file_stem(f)) = to_lowercase(file_stem(g))
           \/ VariantName(file_stem(f)) = VariantName(file_stem(g))

\* C11: when two distinct asset files normalize to the same canonical name or the same
\* identifier token, generation halts; it never emits a catalog in which two entries
\* collide or one of them is dropped.
C11_DuplicateNamesHaltGeneration ==
    (build_pc # "start" /\ fs_dir.exists /\ fs_dir.readable /\ NamesCollide)
        => /\ build_pc = "panicked"
           /\ generated = NoCode

(***************************************************************************)
(* An Icon from Icon::default() through its builder calls to its render.   *)
(***************************************************************************)
InitIcon ==
    /\ fs_dir = [exists |-> FALSE, readable |-> FALSE, files |-> {}, bad |-> {}]
    /\ build_pc = "start"
    /\ generated = NoCode
    /\ query = <<>>
    /\ filtered_icons = <<>>
    /\ hovered_icon = None
    /\ selected_color = 16777215
    /\ selected_size = "Large"
    /\ rotation_degrees = 0
    /\ is_dark = TRUE
    /\ frame = NoFrame
    /\ last_op = NoOp
    /\ icon_self = DefaultIcon
    /\ element = None

NextIcon ==
    \/ \E c \in IconColors : icon_color(c)
    \/ \E preset \in IconSizes : with_size(preset)
    \/ \E n \in OverridePixels : styled_size(Px(n))
    \/ \E n \in OverridePixels : styled_w(Px(n))
    \/ \E n \in OverridePixels : styled_h(Px(n))
    \/ \E window \in Windows : icon_render(window)

SpecIcon == InitIcon /\ [][NextIcon]_vars

\* The relative unit of the five tiers in increasing order, in thousandths.
TierRems == [XSmall |-> 750, Small |-> 875, Medium |-> 1000, Large |-> 1500, XLarge |-> 2000]

\* C12: the rendered size is the explicit override when the icon has one; otherwise the
\* relative unit of its preset when it has one; otherwise the host's text size.
C12_SizePrecedence ==
    element # None =>
        LET style == element[1]
            override == icon_self.custom_style
        IN IF override.width # None \/ override.height # None
           THEN style.width = override.width /\ style.height = override.height
           ELSE IF icon_self.size # None
           THEN /\ style.width = Some(Rems(TierRems[icon_self.size[1]]))
                /\ style.height = Some(Rems(TierRems[icon_self.size[1]]))
           ELSE /\ style.width = Some(Px(style.window.font_size))
                /\ style.height = Some(Px(style.window.font_size))

(***************************************************************************)
(* Properties of the handlers' notifications and of the rows pass.         *)
(***************************************************************************)
\* C13: every mutator (query change, set_hovered, set_color, set_size, set_rotation)
\* notifies exactly once per invocation, and only after all of the invocation's field
\* writes, the clearing of the hover on a query change included.
C13_OneNotificationAfterTheWrites ==
    last_op.name \in {"search", "hover", "style"} =>
        LET effects == last_op.effects
        IN /\ Cardinality({k \in 1..Len(effects) : effects[k] = "notify"}) = 1
           /\ effects[Len(effects)] = "notify"
           /\ Len(effects) >= 2
           /\ \A k \in 1..(Len(effects) - 1) : effects[k] = "write"

C13_Witness ==
    /\ last_op.name = "search"
    /\ last_op.hovered_before # None
    /\ hovered_icon = None
    /\ last_op.effects = <<"write", "write", "notify">>

\* The rows a pass over the range of the last pass yields from the state as it is.
RowsOfLastRange ==
    [k \in 1..(frame.range[2] - frame.range[1]) |->
        RowItems(RowIndices(frame.range[1] + k - 1, frame.items_per_row, Len(filtered_icons)),
                 filtered_icons)]

\* C14: a rows pass (the only step that leaves a processed frame with the render as the
\* last handler) changes neither the query, the filtered list, the hover nor a style
\* field, and a second pass with the same range, list and items_per_row yields the rows
\* the first one did.
C14_RowsPassIsIdempotentAndPure ==
    [][(frame'.processed /\ last_op'.name = "render") =>
          /\ UNCHANGED <<query, filtered_icons, hovered_icon, styleVars>>
          /\ frame'.rows = RowsOfLastRange']_vars

C14_Witness ==
    /\ frame.processed
    /\ last_op.name = "render"
    /\ hovered_icon # None
    /\ query # <<>>
    /\ Len(frame.rows) = 2
    /\ frame.rows[1] # <<>>

\* floor(a / b) for b > 0.
FloorOf(a, b) ==
    LET bound == IF a < 0 THEN 1 - a ELSE a + 1
    IN CHOOSE q \in (-bound)..bound : q * b <= a /\ a < (q + 1) * b

C16_RowCountIsCeil ==
    (frame.rendered /\ ~frame.processed /\ last_op.name = "render") =>
        /\ frame.items_per_row >= 1
        /\ frame.num_rows = CeilOf(Len(filtered_icons), frame.items_per_row)

\* A catalog of 3 icons narrowed to 2 by a query after a card was hovered, rendered again
\* at 2 per row: 1 row, where the frame of the whole catalog had 2.
C16_Witness ==
    /\ frame.rendered
    /\ ~frame.processed
    /\ last_op.name = "render"
    /\ hovered_icon # None
    /\ query # <<>>
    /\ count = 3
    /\ Len(filtered_icons) = 2
    /\ frame.items_per_row = 2
    /\ frame.num_rows = 1

\* C17: when the icons directory is missing, cannot be read, or has an entry that cannot
\* be read, generation aborts; it never completes with an empty or partial catalog.
C17_UnreadableDirectoryAborts ==
    (build_pc # "start" /\ (~fs_dir.exists \/ ~fs_dir.readable \/ fs_dir.bad # {}))
        => /\ build_pc = "panicked"
           /\ generated = NoCode

\* C18: for every file the generator accepts, the name the catalog gives its identifier
\* is the file's base name case-folded to lowercase.
C18_NameIsLowercasedBaseName ==
    (BuildCompleted /\ fs_dir.exists) =>
        LET entries == SortByPath(AcceptedFiles)
        IN /\ Len(generated.name_arms) = Len(entries)
           /\ \A k \in 1..Len(entries) :
                 generated.name_arms[k].value = to_lowercase(file_stem(entries[k]))

====
